---- MODULE Spec2Model ----
(***************************************************************************)
(* Component storages of parsec (src/storage.rs): the dense VecStorage and *)
(* the sparse HashMapStorage, both implementing Storage<T> + StorageBase.  *)
(*                                                                         *)
(* Option<X> is modelled as a sequence of length 0 (None) or 1 (Some(x)).  *)
(* A reference handed out by get / get_mut and the value moved out by      *)
(* remove are modelled by the entry they come from: the generation the     *)
(* entry is stored under and the value found there.                        *)
(*                                                                         *)
(* A storage object is of exactly one strategy (the S of the generic unit  *)
(* tests); `kind` is the strategy picked at construction, and the other    *)
(* strategy's variable stays at new().                                     *)
(***************************************************************************)
EXTENDS Integers, Sequences, FiniteSets, TLC

\* Bounds of the model: entity ids 0..MaxId, generations 1..MaxGen,
\* component values 1..MaxVal.
MaxId == 1
MaxGen == 2
MaxVal == 2
\* Most entries the sparse storage is filled with.
MaxLive == 2

Ids == 0..MaxId
Gens == 1..MaxGen
Vals == 1..MaxVal

None == << >>
Some(x) == << x >>

\* Entity::new(id, gen), Entity::get_id, Entity::get_gen
Entity_new(i, g) == [id |-> i, gen |-> g]
get_id(e) == e.id
get_gen(e) == e.gen
Entities == { Entity_new(i, g) : i \in Ids, g \in Gens }

\* An entry as seen from outside: stored generation and value.
Entry(g, v) == [gen |-> g, val |-> v]

VARIABLES kind, vec, map, last, preVec, preMap, insertGen, insertVal, again

\* State of the runs that drive a dense and a sparse storage side by side:
\* the sparse storage's result of the last call (last.res is the dense one).
VARIABLES resMap

\* State of the world and its scheduler (the storages are vec for CompInt
\* and map for CompBool): the allocator's current generation of each id and
\* the ids alive, the creations and deletions requested by tasks and not yet
\* merged, the tasks in flight (scheduled and not ended), in scheduling
\* order, whether a task scheduled since the last wait has panicked, the
\* task that ended last (its kind, how it ended and the ids its body ran
\* on), and the position of the thread that owns the scheduler.
VARIABLES gens, alive, pendCreate, pendDelete, tasks, failed, lastEnded,
          mainPc

schedVars == << gens, alive, pendCreate, pendDelete, tasks, failed, lastEnded,
               mainPc >>
extVars == << resMap, schedVars >>
vars == << kind, vec, map, last, preVec, preMap, insertGen, insertVal, again,
           extVars >>

----------------------------------------------------------------------------
(* Vec<Option<(Generation, T)>>: slot of id i is element i + 1.            *)

\* Vec::get / Vec::get_mut: the slot at a position, if within the length.
Vec_get(s, i) == IF i < Len(s) THEN Some(s[i + 1]) ELSE None

\* VecStorage::new
VecStorage_new == << >>

\* VecStorage::get
VecStorage_get(s, entity) ==
    IF Vec_get(s, get_id(entity)) = None THEN None
    ELSE LET x == s[get_id(entity) + 1] IN
         IF x # None /\ x[1].gen = get_gen(entity)
         THEN Some(Entry(x[1].gen, x[1].val))
         ELSE None

\* Variant of VecStorage::get_mut whose match arm has no generation guard.
VecStorage_get_mut_AnyGen(s, entity, w) ==
    IF Vec_get(s, get_id(entity)) = None THEN [st |-> s, res |-> None]
    ELSE LET x == s[get_id(entity) + 1] IN
         IF x # None
         THEN [st |-> [s EXCEPT ![get_id(entity) + 1] = Some(Entry(x[1].gen, w))],
               res |-> Some(Entry(x[1].gen, x[1].val))]
         ELSE [st |-> s, res |-> None]

\* VecStorage::get_mut, followed by the caller's write of w through the
\* reference it got (as in test_get_mut).
VecStorage_get_mut(s, entity, w) ==
    IF Vec_get(s, get_id(entity)) = None THEN [st |-> s, res |-> None]
    ELSE LET x == s[get_id(entity) + 1] IN
         IF x # None /\ x[1].gen = get_gen(entity)
         THEN [st |-> [s EXCEPT ![get_id(entity) + 1] = Some(Entry(x[1].gen, w))],
               res |-> Some(Entry(x[1].gen, x[1].val))]
         ELSE [st |-> s, res |-> None]

\* Variant of the growth loop that rebuilds the sequence instead of
\* appending to it.
Grow_Fresh(s, i) == IF Len(s) <= i THEN [k \in 1..(i + 1) |-> None] ELSE s

\* The while loop of VecStorage::insert: push None until len > id.
RECURSIVE Grow(_, _)
Grow(s, i) == IF Len(s) <= i THEN Grow(Append(s, None), i) ELSE s

\* Variant of VecStorage::insert that keeps an occupant of a higher
\* generation.
VecStorage_insert_KeepNewer(s, entity, value) ==
    LET t == Grow(s, get_id(entity))
        x == t[get_id(entity) + 1] IN
    IF x # None /\ x[1].gen > get_gen(entity) THEN t
    ELSE [t EXCEPT ![get_id(entity) + 1] = Some(Entry(get_gen(entity), value))]

\* VecStorage::insert
VecStorage_insert(s, entity, value) ==
    [Grow(s, get_id(entity)) EXCEPT
        ![get_id(entity) + 1] = Some(Entry(get_gen(entity), value))]

\* Variant of VecStorage::remove without the generation test.
VecStorage_remove_AnyGen(s, entity) ==
    IF Vec_get(s, get_id(entity)) = None THEN [st |-> s, res |-> None]
    ELSE LET x == s[get_id(entity) + 1] IN
         [st |-> [s EXCEPT ![get_id(entity) + 1] = None],
          res |-> IF x = None THEN None ELSE Some(Entry(x[1].gen, x[1].val))]

\* Variant of VecStorage::remove that makes room for the slot before it
\* looks at it.
VecStorage_remove_Grow(s, entity) ==
    LET t == Grow(s, get_id(entity))
        x == t[get_id(entity) + 1] IN
    IF x # None /\ x[1].gen # get_gen(entity)
    THEN [st |-> t, res |-> None]
    ELSE [st |-> [t EXCEPT ![get_id(entity) + 1] = None],
          res |-> IF x = None THEN None ELSE Some(Entry(x[1].gen, x[1].val))]

\* VecStorage::remove
VecStorage_remove(s, entity) ==
    IF Vec_get(s, get_id(entity)) = None THEN [st |-> s, res |-> None]
    ELSE LET x == s[get_id(entity) + 1] IN
         IF x # None /\ x[1].gen # get_gen(entity)
         THEN [st |-> s, res |-> None]
         ELSE [st |-> [s EXCEPT ![get_id(entity) + 1] = None],
               res |-> IF x = None THEN None
                       ELSE Some(Entry(x[1].gen, x[1].val))]

\* Variant of VecStorage::del that clears only a slot of the entity's
\* generation.
VecStorage_del_GenChecked(s, entity) ==
    IF Vec_get(s, get_id(entity)) = None THEN s
    ELSE LET x == s[get_id(entity) + 1] IN
         IF x # None /\ x[1].gen = get_gen(entity)
         THEN [s EXCEPT ![get_id(entity) + 1] = None]
         ELSE s

\* Variant of VecStorage::del that pops the slot when it is the last one.
VecStorage_del_Pop(s, entity) ==
    IF Vec_get(s, get_id(entity)) = None THEN s
    ELSE IF get_id(entity) + 1 = Len(s) THEN SubSeq(s, 1, Len(s) - 1)
    ELSE [s EXCEPT ![get_id(entity) + 1] = None]

\* Variant of VecStorage::del that makes room for the slot before it
\* clears it.
VecStorage_del_Grow(s, entity) ==
    [Grow(s, get_id(entity)) EXCEPT ![get_id(entity) + 1] = None]

\* VecStorage::del (StorageBase)
VecStorage_del(s, entity) ==
    IF Vec_get(s, get_id(entity)) = None THEN s
    ELSE [s EXCEPT ![get_id(entity) + 1] = None]

----------------------------------------------------------------------------
(* HashMap<Entity, T>: a function whose domain is the set of keys present. *)

\* HashMap::remove's effect on the table
Without(m, k) == [x \in (DOMAIN m) \ {k} |-> m[x]]

\* HashMapStorage::new
HashMapStorage_new == [x \in {} |-> 0]

\* HashMapStorage::get
HashMapStorage_get(m, entity) ==
    IF entity \in DOMAIN m THEN Some(Entry(get_gen(entity), m[entity])) ELSE None

\* Variant of HashMapStorage::get_mut that hands out a copy of the value.
HashMapStorage_get_mut_Copy(m, entity, w) ==
    IF entity \in DOMAIN m
    THEN [st |-> m, res |-> Some(Entry(get_gen(entity), m[entity]))]
    ELSE [st |-> m, res |-> None]

\* HashMapStorage::get_mut, followed by the caller's write of w.
HashMapStorage_get_mut(m, entity, w) ==
    IF entity \in DOMAIN m
    THEN [st |-> [m EXCEPT ![entity] = w],
          res |-> Some(Entry(get_gen(entity), m[entity]))]
    ELSE [st |-> m, res |-> None]

\* Variant of HashMapStorage::insert that keeps the value of a key already
\* present.
HashMapStorage_insert_KeepOld(m, entity, value) ==
    [x \in (DOMAIN m) \cup {entity} |-> IF x \in DOMAIN m THEN m[x] ELSE value]

\* Variant of HashMapStorage::insert that drops the other generations of the
\* entity's id.
HashMapStorage_insert_ById(m, entity, value) ==
    [x \in { k \in DOMAIN m : get_id(k) # get_id(entity) } \cup {entity} |->
        IF x = entity THEN value ELSE m[x]]

\* HashMapStorage::insert
HashMapStorage_insert(m, entity, value) ==
    [x \in (DOMAIN m) \cup {entity} |-> IF x = entity THEN value ELSE m[x]]

\* Variant of HashMapStorage::remove that returns the value and leaves the
\* key in the table.
HashMapStorage_remove_Peek(m, entity) ==
    IF entity \in DOMAIN m
    THEN [st |-> m, res |-> Some(Entry(get_gen(entity), m[entity]))]
    ELSE [st |-> m, res |-> None]

\* HashMapStorage::remove
HashMapStorage_remove(m, entity) ==
    IF entity \in DOMAIN m
    THEN [st |-> Without(m, entity), res |-> Some(Entry(get_gen(entity), m[entity]))]
    ELSE [st |-> m, res |-> None]

\* Variant of HashMapStorage::del that drops every generation of the
\* entity's id.
HashMapStorage_del_ById(m, entity) ==
    [x \in { k \in DOMAIN m : get_id(k) # get_id(entity) } |-> m[x]]

\* HashMapStorage::del (StorageBase)
HashMapStorage_del(m, entity) == Without(m, entity)

----------------------------------------------------------------------------
(* The state machine.  A step is a call of one operation of the storage    *)
(* in use, or the end of the borrow of the result of the call before.      *)
(* last is the call just made and its result (NoCall once the result has   *)
(* been dropped); preVec and preMap are the storage as it was when that    *)
(* call was made.  A call is made once the result of the call before has   *)
(* been dropped; test_sub's second remove follows its first directly.      *)
(* History of the dense storage: insertGen[i] and insertVal[i] are the     *)
(* generation and the value of the insert that filled slot i (0 while no   *)
(* insert has, or once the slot is cleared); insertVal[i] is 0 as well     *)
(* once a write through get_mut has put another value in the slot.         *)
(* again tells that the call just made is a remove repeating the           *)
(* successful remove made right before it.                                 *)

Call(op, e, v, res) == [op |-> op, e |-> e, v |-> v, res |-> res]
NoCall == Call("none", Entity_new(0, 1), 0, None)

\* The world and scheduler are not part of the runs on a bare storage.
SchedUnused ==
    /\ gens = [i \in Ids |-> 1]
    /\ alive = {}
    /\ pendCreate = {}
    /\ pendDelete = {}
    /\ tasks = << >>
    /\ failed = FALSE
    /\ lastEnded = None
    /\ mainPc = "idle"

Init ==
    /\ kind \in {"vec", "map"}
    /\ vec = VecStorage_new
    /\ map = HashMapStorage_new
    /\ last = NoCall
    /\ preVec = VecStorage_new
    /\ preMap = HashMapStorage_new
    /\ insertGen = [i \in Ids |-> 0]
    /\ insertVal = [i \in Ids |-> 0]
    /\ again = FALSE
    /\ resMap = None
    /\ SchedUnused

Idle == last = NoCall
Repeats(e) == last.op = "remove" /\ last.e = e /\ last.res # None

CallVecInsert ==
    \E e \in Entities, v \in Vals :
        /\ kind = "vec"
        /\ Idle
        /\ vec' = VecStorage_insert(vec, e, v)
        /\ preVec' = vec
        /\ last' = Call("insert", e, v, None)
        /\ insertGen' = [insertGen EXCEPT ![get_id(e)] = get_gen(e)]
        /\ insertVal' = [insertVal EXCEPT ![get_id(e)] = v]
        /\ again' = FALSE
        /\ UNCHANGED << kind, map, preMap >>
        /\ UNCHANGED extVars

CallVecGet ==
    \E e \in Entities :
        /\ kind = "vec"
        /\ Idle
        /\ preVec' = vec
        /\ last' = Call("get", e, 0, VecStorage_get(vec, e))
        /\ again' = FALSE
        /\ UNCHANGED << kind, vec, map, preMap, insertGen, insertVal >>
        /\ UNCHANGED extVars

CallVecGetMut ==
    \E e \in Entities, w \in Vals :
        LET r == VecStorage_get_mut(vec, e, w) IN
        /\ kind = "vec"
        /\ Idle
        /\ vec' = r.st
        /\ preVec' = vec
        /\ last' = Call("get_mut", e, w, r.res)
        /\ insertVal' = IF r.res # None /\ r.res[1].val # w
                        THEN [insertVal EXCEPT ![get_id(e)] = 0]
                        ELSE insertVal
        /\ again' = FALSE
        /\ UNCHANGED << kind, map, preMap, insertGen >>
        /\ UNCHANGED extVars

CallVecRemove ==
    \E e \in Entities :
        LET r == VecStorage_remove(vec, e) IN
        /\ kind = "vec"
        /\ Idle \/ Repeats(e)
        /\ vec' = r.st
        /\ preVec' = vec
        /\ last' = Call("remove", e, 0, r.res)
        /\ insertGen' = IF r.res # None THEN [insertGen EXCEPT ![get_id(e)] = 0]
                        ELSE insertGen
        /\ insertVal' = IF r.res # None THEN [insertVal EXCEPT ![get_id(e)] = 0]
                        ELSE insertVal
        /\ again' = Repeats(e)
        /\ UNCHANGED << kind, map, preMap >>
        /\ UNCHANGED extVars

CallVecDel ==
    \E e \in Entities :
        /\ kind = "vec"
        /\ Idle
        /\ vec' = VecStorage_del(vec, e)
        /\ preVec' = vec
        /\ last' = Call("del", e, 0, None)
        /\ insertGen' = [insertGen EXCEPT ![get_id(e)] = 0]
        /\ insertVal' = [insertVal EXCEPT ![get_id(e)] = 0]
        /\ again' = FALSE
        /\ UNCHANGED << kind, map, preMap >>
        /\ UNCHANGED extVars

CallHashMapInsert ==
    \E e \in Entities, v \in Vals :
        /\ kind = "map"
        /\ Idle
        /\ Cardinality((DOMAIN map) \cup {e}) <= MaxLive
        /\ map' = HashMapStorage_insert(map, e, v)
        /\ preMap' = map
        /\ last' = Call("insert", e, v, None)
        /\ again' = FALSE
        /\ UNCHANGED << kind, vec, preVec, insertGen, insertVal >>
        /\ UNCHANGED extVars

CallHashMapGet ==
    \E e \in Entities :
        /\ kind = "map"
        /\ Idle
        /\ preMap' = map
        /\ last' = Call("get", e, 0, HashMapStorage_get(map, e))
        /\ again' = FALSE
        /\ UNCHANGED << kind, vec, map, preVec, insertGen, insertVal >>
        /\ UNCHANGED extVars

CallHashMapGetMut ==
    \E e \in Entities, w \in Vals :
        LET r == HashMapStorage_get_mut(map, e, w) IN
        /\ kind = "map"
        /\ Idle
        /\ map' = r.st
        /\ preMap' = map
        /\ last' = Call("get_mut", e, w, r.res)
        /\ again' = FALSE
        /\ UNCHANGED << kind, vec, preVec, insertGen, insertVal >>
        /\ UNCHANGED extVars

CallHashMapRemove ==
    \E e \in Entities :
        LET r == HashMapStorage_remove(map, e) IN
        /\ kind = "map"
        /\ Idle \/ Repeats(e)
        /\ map' = r.st
        /\ preMap' = map
        /\ last' = Call("remove", e, 0, r.res)
        /\ again' = Repeats(e)
        /\ UNCHANGED << kind, vec, preVec, insertGen, insertVal >>
        /\ UNCHANGED extVars

CallHashMapDel ==
    \E e \in Entities :
        /\ kind = "map"
        /\ Idle
        /\ map' = HashMapStorage_del(map, e)
        /\ preMap' = map
        /\ last' = Call("del", e, 0, None)
        /\ again' = FALSE
        /\ UNCHANGED << kind, vec, preVec, insertGen, insertVal >>
        /\ UNCHANGED extVars

\* The result of the last call (a reference into the storage, or the value
\* moved out) goes out of scope.
DropResult ==
    /\ ~Idle
    /\ last' = NoCall
    /\ preVec' = vec
    /\ preMap' = map
    /\ again' = FALSE
    /\ resMap' = None
    /\ UNCHANGED << kind, vec, map, insertGen, insertVal >>
    /\ UNCHANGED schedVars

Next ==
    \/ CallVecInsert
    \/ CallVecGet
    \/ CallVecGetMut
    \/ CallVecRemove
    \/ CallVecDel
    \/ CallHashMapInsert
    \/ CallHashMapGet
    \/ CallHashMapGetMut
    \/ CallHashMapRemove
    \/ CallHashMapDel
    \/ DropResult

Spec == Init /\ [][Next]_vars

----------------------------------------------------------------------------
(* The same calls made on a dense and on a sparse storage, by a caller     *)
(* that keeps the allocator's discipline: no insert at an id that holds a  *)
(* value under another generation, no del with another generation than    *)
(* the one stored at the id.                                               *)

\* The generations under which either storage holds a value at id i.
StoredGens(i) ==
    { g \in Gens : \/ VecStorage_get(vec, Entity_new(i, g)) # None
                   \/ HashMapStorage_get(map, Entity_new(i, g)) # None }

Disciplined(e) == StoredGens(get_id(e)) \subseteq {get_gen(e)}

InitPair ==
    /\ kind = "pair"
    /\ vec = VecStorage_new
    /\ map = HashMapStorage_new
    /\ last = NoCall
    /\ preVec = VecStorage_new
    /\ preMap = HashMapStorage_new
    /\ insertGen = [i \in Ids |-> 0]
    /\ insertVal = [i \in Ids |-> 0]
    /\ again = FALSE
    /\ resMap = None
    /\ SchedUnused

PairInsert ==
    \E e \in Entities, v \in Vals :
        /\ kind = "pair"
        /\ Idle
        /\ Disciplined(e)
        /\ Cardinality((DOMAIN map) \cup {e}) <= MaxLive
        /\ vec' = VecStorage_insert(vec, e, v)
        /\ map' = HashMapStorage_insert(map, e, v)
        /\ preVec' = vec
        /\ preMap' = map
        /\ last' = Call("insert", e, v, None)
        /\ resMap' = None
        /\ UNCHANGED << kind, insertGen, insertVal, again >>
        /\ UNCHANGED schedVars

PairGet ==
    \E e \in Entities :
        /\ kind = "pair"
        /\ Idle
        /\ preVec' = vec
        /\ preMap' = map
        /\ last' = Call("get", e, 0, VecStorage_get(vec, e))
        /\ resMap' = HashMapStorage_get(map, e)
        /\ UNCHANGED << kind, vec, map, insertGen, insertVal, again >>
        /\ UNCHANGED schedVars

PairGetMut ==
    \E e \in Entities, w \in Vals :
        LET rv == VecStorage_get_mut(vec, e, w)
            rm == HashMapStorage_get_mut(map, e, w) IN
        /\ kind = "pair"
        /\ Idle
        /\ vec' = rv.st
        /\ map' = rm.st
        /\ preVec' = vec
        /\ preMap' = map
        /\ last' = Call("get_mut", e, w, rv.res)
        /\ resMap' = rm.res
        /\ UNCHANGED << kind, insertGen, insertVal, again >>
        /\ UNCHANGED schedVars

PairRemove ==
    \E e \in Entities :
        LET rv == VecStorage_remove(vec, e)
            rm == HashMapStorage_remove(map, e) IN
        /\ kind = "pair"
        /\ Idle
        /\ vec' = rv.st
        /\ map' = rm.st
        /\ preVec' = vec
        /\ preMap' = map
        /\ last' = Call("remove", e, 0, rv.res)
        /\ resMap' = rm.res
        /\ UNCHANGED << kind, insertGen, insertVal, again >>
        /\ UNCHANGED schedVars

PairDel ==
    \E e \in Entities :
        /\ kind = "pair"
        /\ Idle
        /\ Disciplined(e)
        /\ vec' = VecStorage_del(vec, e)
        /\ map' = HashMapStorage_del(map, e)
        /\ preVec' = vec
        /\ preMap' = map
        /\ last' = Call("del", e, 0, None)
        /\ resMap' = None
        /\ UNCHANGED << kind, insertGen, insertVal, again >>
        /\ UNCHANGED schedVars

NextPair ==
    \/ PairInsert
    \/ PairGet
    \/ PairGetMut
    \/ PairRemove
    \/ PairDel
    \/ DropResult

SpecPair == InitPair /\ [][NextPair]_vars

----------------------------------------------------------------------------
(* The world and its scheduler, as tests/tests.rs uses them: CompInt is    *)
(* registered with a VecStorage (vec), CompBool with a HashMapStorage      *)
(* (map).  The owning thread builds entities with create_now, schedules    *)
(* tasks with run1w1r / run0w2r / run and calls wait.  A task fetches its  *)
(* storages (run returns once it has), runs its body over the join of the  *)
(* storages it fetched, may ask for entities to be created or deleted, and *)
(* ends normally or by a panic.  wait blocks until every task has ended,   *)
(* then merges the requested creations and deletions, or panics if a task  *)
(* did.                                                                    *)
(* The closures scheduled are the caller's choice: those of test wait and  *)
(* of the task_panics tests (kind "sched": systems over the components,    *)
(* and closures that panic), or those of the dynamic_* tests (kind "dyn":  *)
(* closures that create and delete entities, next to a system that reads). *)

\* Most tasks in flight at once.
MaxTasks == 2

\* CompInt(7)
CompInt7 == 7

Task(k, st) == [kind |-> k, st |-> st]

\* A task that has ended: how ("done" or "failed"), and the ids of the
\* entities its body ran on, in the order it ran on them.
EndedTask(k, st, seen) == [kind |-> k, st |-> st, seen |-> seen]

\* The closure shapes of the tests: run1w1r(|b: &mut CompBool, r: &CompInt|),
\* run0w2r(|r: &CompInt, b: &CompBool|), run(|arg| arg.fetch(|_| ()) ...).
TaskKinds == {"run1w1r", "run0w2r", "run"}
Closures == IF kind = "dyn" THEN {"run0w2r", "run"} ELSE TaskKinds
\* The components create_now builds an entity with.
Builds == IF kind = "dyn" THEN {"both"} ELSE {"none", "int", "both"}
Writes(k) == IF k = "run1w1r" THEN {"CompBool"} ELSE {}
Reads(k) ==
    IF k = "run1w1r" THEN {"CompInt"}
    ELSE IF k = "run0w2r" THEN {"CompInt", "CompBool"}
    ELSE {}

\* The tasks that hold a read / a write borrow of a component's storage.
Readers(c) ==
    { n \in DOMAIN tasks : tasks[n].st = "fetched" /\ c \in Reads(tasks[n].kind) }
Writers(c) ==
    { n \in DOMAIN tasks : tasks[n].st = "fetched" /\ c \in Writes(tasks[n].kind) }

\* Variant of the borrow rule that lets a reader in next to a writer.
CanFetch_ReadWhileWritten(k) ==
    \A c \in Writes(k) : Readers(c) = {} /\ Writers(c) = {}

\* The borrows a task of kind k asks for can be granted.
CanFetch(k) ==
    /\ \A c \in Writes(k) : Readers(c) = {} /\ Writers(c) = {}
    /\ \A c \in Reads(k) : Writers(c) = {}

\* Variant in which run returns, and wait is entered, while a task
\* scheduled before has yet to fetch.
NoneSpawned_Eager == TRUE

NoneSpawned == \A n \in DOMAIN tasks : tasks[n].st # "spawned"

\* The tasks in flight but the one at position n.
RECURSIVE Others(_, _)
Others(ts, n) ==
    IF ts = << >> THEN << >>
    ELSE IF n = 1 THEN Tail(ts)
    ELSE << Head(ts) >> \o Others(Tail(ts), n - 1)

\* The entity the allocator has at id i.
EntityAt(i) == Entity_new(i, gens[i])

\* The storage of component c holds something for e.
Has(c, e) ==
    IF c = "CompInt" THEN VecStorage_get(vec, e) # None
    ELSE HashMapStorage_get(map, e) # None

\* Variant of the join that looks at the dense storage only.
RECURSIVE JoinFrom_DenseOnly(_, _)
JoinFrom_DenseOnly(k, i) ==
    IF i > MaxId THEN << >>
    ELSE IF i \in alive /\ Has("CompInt", EntityAt(i))
         THEN << i >> \o JoinFrom_DenseOnly(k, i + 1)
         ELSE JoinFrom_DenseOnly(k, i + 1)

\* The join of a task: the ids, in ascending order from i, of the entities
\* alive that every storage the task fetched holds something for.
RECURSIVE JoinFrom(_, _)
JoinFrom(k, i) ==
    IF i > MaxId THEN << >>
    ELSE IF /\ i \in alive
            /\ \A c \in Reads(k) \cup Writes(k) : Has(c, EntityAt(i))
         THEN << i >> \o JoinFrom(k, i + 1)
         ELSE JoinFrom(k, i + 1)
Join(k) == IF k = "run" THEN << >> ELSE JoinFrom(k, 0)

\* The body of the run1w1r closure of test wait, b.0 = r.0 == 7, on the
\* entities of ids.
RECURSIVE WriteAll(_, _)
WriteAll(m, ids) ==
    IF ids = << >> THEN m
    ELSE LET e == EntityAt(Head(ids))
             r == VecStorage_get(vec, e)[1].val
         IN WriteAll(HashMapStorage_get_mut(m, e, r = CompInt7).st, Tail(ids))
BodyOn(k, ids) == IF k = "run1w1r" THEN WriteAll(map, ids) ELSE map

\* StorageBase::del of every registered storage, for every entity of a set.
RECURSIVE DelAllVec(_, _)
DelAllVec(st, es) ==
    IF es = {} THEN st
    ELSE LET e == CHOOSE x \in es : TRUE
         IN DelAllVec(VecStorage_del(st, e), es \ {e})

\* Variant of the merge that leaves the sparse storage out.
DelAllMap_LeftOut(m, es) == m

RECURSIVE DelAllMap(_, _)
DelAllMap(m, es) ==
    IF es = {} THEN m
    ELSE LET e == CHOOSE x \in es : TRUE
         IN DelAllMap(HashMapStorage_del(m, e), es \ {e})

FreeIds(used) == { i \in Ids : i \notin used }
Lowest(S) == CHOOSE i \in S : \A j \in S : i <= j

InitSched ==
    /\ kind = "sched"
    /\ vec = VecStorage_new
    /\ map = HashMapStorage_new
    /\ last = NoCall
    /\ preVec = VecStorage_new
    /\ preMap = HashMapStorage_new
    /\ insertGen = [i \in Ids |-> 0]
    /\ insertVal = [i \in Ids |-> 0]
    /\ again = FALSE
    /\ resMap = None
    /\ SchedUnused

InitDyn ==
    /\ kind = "dyn"
    /\ vec = VecStorage_new
    /\ map = HashMapStorage_new
    /\ last = NoCall
    /\ preVec = VecStorage_new
    /\ preMap = HashMapStorage_new
    /\ insertGen = [i \in Ids |-> 0]
    /\ insertVal = [i \in Ids |-> 0]
    /\ again = FALSE
    /\ resMap = None
    /\ SchedUnused

storeVars == << kind, last, preVec, preMap, insertGen, insertVal, again, resMap >>

\* world.create_now().with(CompInt(7)).with(CompBool(false)).build(), with
\* the components chosen; called, as the tests do, when no
\* task has been scheduled since the last wait.
CreateNow ==
    \E comps \in Builds :
        /\ kind \in {"sched", "dyn"}
        /\ mainPc \in {"idle", "returned"}
        /\ FreeIds(alive) # {}
        /\ LET e == EntityAt(Lowest(FreeIds(alive))) IN
           /\ alive' = alive \cup {get_id(e)}
           /\ vec' = IF comps = "none" THEN vec
                     ELSE VecStorage_insert(vec, e, CompInt7)
           /\ map' = IF comps = "both" THEN HashMapStorage_insert(map, e, FALSE)
                     ELSE map
        /\ mainPc' = "idle"
        /\ lastEnded' = None
        /\ UNCHANGED << gens, pendCreate, pendDelete, tasks, failed >>
        /\ UNCHANGED storeVars

\* scheduler.run1w1r / run0w2r / run: the task is handed to the pool; the
\* call returns once the task has fetched (or ended).
Run ==
    \E k \in Closures :
        /\ kind \in {"sched", "dyn"}
        /\ mainPc \in {"idle", "scheduled", "returned"}
        /\ NoneSpawned
        /\ Len(tasks) < MaxTasks
        /\ tasks' = Append(tasks, Task(k, "spawned"))
        /\ mainPc' = "scheduled"
        /\ lastEnded' = None
        /\ UNCHANGED << vec, map, gens, alive, pendCreate, pendDelete, failed >>
        /\ UNCHANGED storeVars

\* The task gets the borrows of the storages its closure names.
TaskFetch ==
    \E n \in DOMAIN tasks :
        /\ kind \in {"sched", "dyn"}
        /\ tasks[n].st = "spawned"
        /\ CanFetch(tasks[n].kind)
        /\ tasks' = [tasks EXCEPT ![n].st = "fetched"]
        /\ lastEnded' = None
        /\ UNCHANGED << vec, map, gens, alive, pendCreate, pendDelete, failed,
                        mainPc >>
        /\ UNCHANGED storeVars

\* arg.create(): the entity is handed out, and built at the next wait.
TaskCreate ==
    \E n \in DOMAIN tasks :
        /\ kind = "dyn"
        /\ tasks[n].kind = "run"
        /\ tasks[n].st = "fetched"
        /\ FreeIds(alive \cup pendCreate) # {}
        /\ pendCreate' = pendCreate \cup {Lowest(FreeIds(alive \cup pendCreate))}
        /\ lastEnded' = None
        /\ UNCHANGED << vec, map, gens, alive, pendDelete, tasks, failed, mainPc >>
        /\ UNCHANGED storeVars

\* Variant of arg.delete(e) that deletes the entity at once.
TaskDelete_AtOnce ==
    \E n \in DOMAIN tasks, i \in Ids :
        /\ kind = "dyn"
        /\ tasks[n].kind = "run"
        /\ tasks[n].st = "fetched"
        /\ i \in alive
        /\ gens[i] < MaxGen
        /\ alive' = alive \ {i}
        /\ gens' = [gens EXCEPT ![i] = gens[i] + 1]
        /\ vec' = VecStorage_del(vec, EntityAt(i))
        /\ map' = HashMapStorage_del(map, EntityAt(i))
        /\ lastEnded' = None
        /\ UNCHANGED << pendCreate, pendDelete, tasks, failed, mainPc >>
        /\ UNCHANGED storeVars

\* arg.delete(e): the entity is deleted at the next wait.
TaskDelete ==
    \E n \in DOMAIN tasks, i \in Ids :
        /\ kind = "dyn"
        /\ tasks[n].kind = "run"
        /\ tasks[n].st = "fetched"
        /\ i \in alive \cup pendCreate
        /\ i \notin pendDelete
        /\ gens[i] < MaxGen
        /\ pendDelete' = pendDelete \cup {i}
        /\ lastEnded' = None
        /\ UNCHANGED << vec, map, gens, alive, pendCreate, tasks, failed, mainPc >>
        /\ UNCHANGED storeVars

\* The closure runs over the join and returns; the borrows end.
TaskFinish ==
    \E n \in DOMAIN tasks :
        LET k == tasks[n].kind IN
        /\ kind \in {"sched", "dyn"}
        /\ tasks[n].st = "fetched"
        /\ map' = BodyOn(k, Join(k))
        /\ tasks' = Others(tasks, n)
        /\ lastEnded' = Some(EndedTask(k, "done", Join(k)))
        /\ UNCHANGED << vec, gens, alive, pendCreate, pendDelete, failed,
                        mainPc >>
        /\ UNCHANGED storeVars

\* The closure panics: a run closure before it fetched, or any closure
\* after it ran over the first entities of the join.
TaskPanic ==
    \E n \in DOMAIN tasks :
        LET k == tasks[n].kind IN
        /\ kind = "sched"
        /\ \E len \in 0..Len(Join(k)) :
               LET ids == SubSeq(Join(k), 1, len) IN
               /\ tasks[n].st = "spawned" => k = "run"
               /\ map' = BodyOn(k, ids)
               /\ lastEnded' = Some(EndedTask(k, "failed", ids))
        /\ tasks' = Others(tasks, n)
        /\ failed' = TRUE
        /\ UNCHANGED << vec, gens, alive, pendCreate, pendDelete, mainPc >>
        /\ UNCHANGED storeVars

\* scheduler.wait() is called.
Wait ==
    /\ kind \in {"sched", "dyn"}
    /\ mainPc \in {"idle", "scheduled", "returned"}
    /\ NoneSpawned
    /\ mainPc' = "waiting"
    /\ UNCHANGED << vec, map, gens, alive, pendCreate, pendDelete, tasks,
                    failed, lastEnded >>
    /\ UNCHANGED storeVars

\* Variant of wait that returns whether or not a task has panicked.
WaitReturn_Swallow ==
    LET dead == { EntityAt(i) : i \in pendDelete } IN
    /\ kind \in {"sched", "dyn"}
    /\ mainPc = "waiting"
    /\ tasks = << >>
    /\ alive' = (alive \cup pendCreate) \ pendDelete
    /\ gens' = [i \in Ids |-> IF i \in pendDelete THEN gens[i] + 1 ELSE gens[i]]
    /\ vec' = DelAllVec(vec, dead)
    /\ map' = DelAllMap(map, dead)
    /\ pendCreate' = {}
    /\ pendDelete' = {}
    /\ lastEnded' = None
    /\ mainPc' = "returned"
    /\ UNCHANGED << tasks, failed >>
    /\ UNCHANGED storeVars

\* Every task has ended, none by a panic: wait merges the requested
\* creations and deletions (del on every registered storage) and returns.
WaitReturn ==
    LET dead == { EntityAt(i) : i \in pendDelete } IN
    /\ kind \in {"sched", "dyn"}
    /\ mainPc = "waiting"
    /\ tasks = << >>
    /\ ~failed
    /\ alive' = (alive \cup pendCreate) \ pendDelete
    /\ gens' = [i \in Ids |-> IF i \in pendDelete THEN gens[i] + 1 ELSE gens[i]]
    /\ vec' = DelAllVec(vec, dead)
    /\ map' = DelAllMap(map, dead)
    /\ pendCreate' = {}
    /\ pendDelete' = {}
    /\ lastEnded' = None
    /\ mainPc' = "returned"
    /\ UNCHANGED << tasks, failed >>
    /\ UNCHANGED storeVars

\* Every task has ended and one of them by a panic: wait panics.
WaitPanic ==
    /\ kind \in {"sched", "dyn"}
    /\ mainPc = "waiting"
    /\ tasks = << >>
    /\ failed
    /\ mainPc' = "panicked"
    /\ UNCHANGED << vec, map, gens, alive, pendCreate, pendDelete, tasks,
                    failed, lastEnded >>
    /\ UNCHANGED storeVars

NextSched ==
    \/ CreateNow
    \/ Run
    \/ TaskFetch
    \/ TaskFinish
    \/ TaskPanic
    \/ Wait
    \/ WaitReturn
    \/ WaitPanic

SpecSched == InitSched /\ [][NextSched]_vars

NextDyn ==
    \/ CreateNow
    \/ Run
    \/ TaskFetch
    \/ TaskCreate
    \/ TaskDelete
    \/ TaskFinish
    \/ Wait
    \/ WaitReturn

SpecDyn == InitDyn /\ [][NextDyn]_vars

----------------------------------------------------------------------------
(* Strategy-independent view of the storage in use.                        *)

\* get(e) on the storage as it is now / as it was before the last call.
Get(e) == IF kind = "vec" THEN VecStorage_get(vec, e) ELSE HashMapStorage_get(map, e)
PreGet(e) == IF kind = "vec" THEN VecStorage_get(preVec, e) ELSE HashMapStorage_get(preMap, e)

\* The whole storage is as it was before the last call.
Unmodified == vec = preVec /\ map = preMap

TypeOK ==
    /\ kind \in {"vec", "map"}
    /\ Len(vec) <= MaxId + 1
    /\ DOMAIN map \subseteq Entities
    /\ \A k \in DOMAIN map : map[k] \in Vals

----------------------------------------------------------------------------
(* Properties.                                                             *)

\* The handle of the same id as the last call's entity, under generation g.
Held(g) == Entity_new(get_id(last.e), g)

\* The last call was made with a handle whose generation differs from g,
\* while a value was stored at that id under generation g.
StaleAgainst(g) == g # get_gen(last.e) /\ PreGet(Held(g)) # None

\* The last call neither returned the entry stored under generation g nor
\* changed or removed it.
Spared(g) ==
    /\ last.res = None \/ last.res[1].gen # g
    /\ Get(Held(g)) = PreGet(Held(g))

Ops == {"get", "get_mut", "insert", "remove", "del"}

\* C1 as stated: whatever the operation and the strategy, a call with a
\* handle of another generation neither returns, changes nor removes the
\* value stored at that id.
C1_StaleHandleSafety_AsStated ==
    \A g \in Gens : (last.op \in Ops /\ StaleAgainst(g)) => Spared(g)

\* C1 (amended): get, get_mut and remove of either strategy, and insert and
\* delete of the sparse strategy, called with a handle (i, g') while a value
\* is stored at i under g # g', neither return, change nor remove that
\* value, and get((i, g)) yields it afterwards.  (Dense insert and dense
\* delete are excluded: they overwrite / clear the slot.)
C1_StaleHandleSafety ==
    \A g \in Gens :
        ( /\ last.op \in Ops
          /\ ~(kind = "vec" /\ last.op \in {"insert", "del"})
          /\ StaleAgainst(g) ) => Spared(g)

C1_Witness ==
    /\ kind = "vec"
    /\ last.op = "get_mut"
    /\ \E g \in Gens : StaleAgainst(g) /\ PreGet(Held(g))[1].val # last.v

\* C2: immediately after insert(e, v), get(e) yields v, in both strategies.
C2_InsertGetRoundTrip ==
    last.op = "insert" => Get(last.e) = Some(Entry(get_gen(last.e), last.v))

C2_Witness ==
    /\ kind = "map"
    /\ last.op = "insert"
    /\ PreGet(last.e) # None
    /\ PreGet(last.e)[1].val # last.v

\* C3 as stated: with a value stored under (i, g_right), remove((i, g_wrong))
\* returns empty and leaves the whole storage unmodified.
C3_RemoveGenerationExact_AsStated ==
    \A g \in Gens :
        (last.op = "remove" /\ StaleAgainst(g)) =>
            /\ last.res = None
            /\ Unmodified
            /\ Get(Held(g)) = PreGet(Held(g))

\* C3 (amended): with a value stored under (i, g_right), remove((i, g_wrong))
\* never returns or touches that entry, which stays retrievable under
\* g_right; and when nothing is stored under (i, g_wrong) itself (always so
\* in the dense strategy) it returns empty and leaves the whole storage
\* unmodified.
C3_RemoveGenerationExact ==
    \A g \in Gens :
        (last.op = "remove" /\ StaleAgainst(g)) =>
            /\ Spared(g)
            /\ PreGet(last.e) = None => (last.res = None /\ Unmodified)

C3_Witness ==
    /\ kind = "vec"
    /\ last.op = "remove"
    /\ \E g \in Gens : StaleAgainst(g)

\* C4: when get(e) yields v, remove(e) returns v and get(e) is empty
\* afterwards; a second remove(e) right after it returns empty.
C4_IdempotentRemoval ==
    /\ (last.op = "remove" /\ PreGet(last.e) # None) =>
            (last.res = PreGet(last.e) /\ Get(last.e) = None)
    /\ again => (last.op = "remove" /\ last.res = None)

C4_Witness == again /\ kind = "map" /\ DOMAIN map # {} /\ last.res = None

\* C5: dense delete((i, g2)) clears the slot at i whatever generation is
\* stored there: get((i, g)) is empty for every generation g afterwards.
C5_DenseDeleteUnconditional ==
    (kind = "vec" /\ last.op = "del") =>
        \A g \in Gens : Get(Held(g)) = None

C5_Witness ==
    /\ kind = "vec"
    /\ last.op = "del"
    /\ \E g \in Gens : StaleAgainst(g)

LiveGens(i) == { g \in Gens : Get(Entity_new(i, g)) # None }

\* C7 as stated: dense storage has at most one live generation per id, and
\* the generation and the value found are those of the most recent insert
\* at that id (no other value has been put in its place).
C7_DenseInvariant_AsStated ==
    kind = "vec" =>
        \A i \in Ids :
            /\ Cardinality(LiveGens(i)) <= 1
            /\ \A g \in LiveGens(i) :
                   Get(Entity_new(i, g)) = Some(Entry(insertGen[i], insertVal[i]))

\* C7 (amended): dense storage has at most one live generation per id; that
\* generation is the one of the most recent insert at the id (whether higher
\* or lower than the one stored before), and the value is that insert's
\* value unless a write through get_mut has replaced it since.
C7_DenseInvariant ==
    kind = "vec" =>
        \A i \in Ids :
            /\ Cardinality(LiveGens(i)) <= 1
            /\ \A g \in LiveGens(i) :
                   /\ g = insertGen[i]
                   /\ insertVal[i] # 0 =>
                          Get(Entity_new(i, g)) = Some(Entry(g, insertVal[i]))

C7_Witness ==
    /\ kind = "vec"
    /\ last.op = "insert"
    /\ \E g \in Gens : StaleAgainst(g) /\ g > get_gen(last.e)
    /\ LiveGens(get_id(last.e)) = {get_gen(last.e)}

\* C8: sparse insert((i, g2), v2) while (i, g1) holds v1 adds a second entry
\* and leaves the first untouched, both being found by get; and an entry
\* only ever leaves the storage by a remove or delete with its exact key.
C8_SparseCoexistence ==
    kind = "map" =>
        /\ last.op = "insert" =>
               /\ Get(last.e) = Some(Entry(get_gen(last.e), last.v))
               /\ \A g \in Gens : StaleAgainst(g) => Get(Held(g)) = PreGet(Held(g))
        /\ \A k \in DOMAIN preMap :
               k \notin DOMAIN map => (last.op \in {"remove", "del"} /\ last.e = k)

C8_Witness ==
    /\ kind = "map"
    /\ last.op = "insert"
    /\ last.e \notin DOMAIN preMap
    /\ \E g \in Gens : StaleAgainst(g) /\ Get(Held(g))[1].val # last.v

\* C9: the length of the dense backing sequence never decreases from one
\* state to the next.
C9_DenseLengthMonotone == [][Len(vec') >= Len(vec)]_vars

C9_Witness ==
    /\ kind = "vec"
    /\ last.op \in {"remove", "del"}
    /\ Len(vec) = get_id(last.e) + 1
    /\ preVec[Len(preVec)] # None
    /\ \A i \in 1..Len(vec) : vec[i] = None

\* C10: dense insert((k, g), v), growing or not, leaves get((j, g')) as it
\* was for every id j < k and every generation g'.
C10_DenseInsertFrame ==
    (kind = "vec" /\ last.op = "insert") =>
        \A j \in Ids, g \in Gens :
            j < get_id(last.e) => Get(Entity_new(j, g)) = PreGet(Entity_new(j, g))

C10_Witness ==
    /\ kind = "vec"
    /\ last.op = "insert"
    /\ Len(preVec) < Len(vec)
    /\ \E j \in Ids : j < get_id(last.e) /\ LiveGens(j) # {}

\* C11: get, get_mut and remove called with an entity for which no entry
\* satisfies the generation predicate (a dense id at or beyond the length,
\* an id never inserted, another generation) return empty and leave the
\* storage as it was; the dense sequence is not grown.
C11_AbsentEntryIsEmpty ==
    (last.op \in {"get", "get_mut", "remove"} /\ PreGet(last.e) = None) =>
        /\ last.res = None
        /\ Unmodified
        /\ Len(vec) = Len(preVec)

C11_Witness ==
    /\ kind = "vec"
    /\ last.op = "remove"
    /\ Len(preVec) > 0
    /\ get_id(last.e) >= Len(preVec)

\* The entries other than the one of the last call's entity, and the
\* generation that one is stored under, are as before the call.
OthersUnchanged ==
    /\ Len(vec) = Len(preVec)
    /\ \A i \in Ids, g \in Gens :
           Entity_new(i, g) # last.e =>
               Get(Entity_new(i, g)) = PreGet(Entity_new(i, g))
    /\ DOMAIN map = DOMAIN preMap
    /\ \A i \in 1..Len(vec) :
           (vec[i] = None) = (preVec[i] = None)
           /\ (vec[i] # None => vec[i][1].gen = preVec[i][1].gen)

\* C18: get_mut(e) is non-empty exactly when get(e) is; after a write of w
\* through it get(e) yields w, and the stored generation of the entry and
\* every other entry are unchanged.
C18_GetMutWritesInPlace ==
    last.op = "get_mut" =>
        /\ last.res = PreGet(last.e)
        /\ last.res # None => Get(last.e) = Some(Entry(get_gen(last.e), last.v))
        /\ OthersUnchanged

C18_Witness ==
    /\ kind = "map"
    /\ last.op = "get_mut"
    /\ last.res # None
    /\ last.res[1].val # last.v
    /\ Cardinality(DOMAIN map) > 1

\* C19: delete(e) on a storage that holds nothing at e's id (a dense id at
\* or beyond the length, an empty storage) leaves the storage as it was and
\* does not grow the dense sequence.
C19_DeleteAbsentIsNoOp ==
    (last.op = "del" /\ \A g \in Gens : PreGet(Held(g)) = None) =>
        /\ Unmodified
        /\ Len(vec) = Len(preVec)

C19_Witness ==
    /\ kind = "vec"
    /\ last.op = "del"
    /\ Len(preVec) > 0
    /\ get_id(last.e) >= Len(preVec)

\* C20: under the allocator's discipline, after every call get(e) agrees
\* between the dense and the sparse storage for every entity e, and so do
\* the results of get, get_mut and remove.
C20_StrategiesInterchangeable ==
    kind = "pair" =>
        /\ \A e \in Entities : VecStorage_get(vec, e) = HashMapStorage_get(map, e)
        /\ last.res = resMap

C20_Witness ==
    /\ kind = "pair"
    /\ last.op = "remove"
    /\ last.res = None
    /\ \E g \in Gens : /\ g # get_gen(last.e)
                       /\ VecStorage_get(vec, Held(g)) # None
                       /\ HashMapStorage_get(map, Held(g)) # None

----------------------------------------------------------------------------
(* Properties of the scheduler.                                            *)

Components == {"CompInt", "CompBool"}

\* C12: borrow exclusion: at every moment, for each storage, at most one
\* running task holds a write borrow of it, and no task holds a read borrow
\* of it while a running task holds a write borrow of it; read borrows of
\* the same storage may be held by several tasks at once.
C12_BorrowExclusion ==
    \A c \in Components :
        /\ Cardinality(Writers(c)) <= 1
        /\ Writers(c) # {} => Readers(c) = {}

\* A system holds the write borrow of the CompBool storage while a system
\* that reads it, scheduled after it, has not been let in.
C12_Witness ==
    /\ Writers("CompBool") # {}
    /\ \E n \in DOMAIN tasks :
           tasks[n].kind = "run0w2r" /\ tasks[n].st = "spawned"

\* wait applies the requests buffered: every task has ended, and the entity
\* set becomes the one asked for while both buffers are emptied.
Merged ==
    /\ mainPc = "waiting"
    /\ tasks = << >>
    /\ mainPc' = "returned"
    /\ alive' = (alive \cup pendCreate) \ pendDelete
    /\ pendCreate' = {}
    /\ pendDelete' = {}

\* C13: deferred structural mutation: a creation or deletion requested from
\* inside a running task changes no storage and no entity set while a task
\* of the batch is in flight; the requests are buffered, and applied once,
\* by the next wait, after every scheduled task has ended (nothing is left
\* in the buffers to apply again once wait has returned).
C13_DeferredStructuralMutation ==
    [][ /\ tasks # << >> =>
               /\ alive' = alive
               /\ gens' = gens
               /\ vec' = vec
               /\ map' = map
        /\ (pendCreate' # pendCreate \/ pendDelete' # pendDelete) =>
               \/ /\ pendCreate \subseteq pendCreate'
                  /\ pendDelete \subseteq pendDelete'
                  /\ alive' = alive
                  /\ gens' = gens
                  /\ vec' = vec
                  /\ map' = map
               \/ Merged
        /\ (pendCreate \cup pendDelete # {} /\ (alive' # alive \/ gens' # gens)) =>
               Merged
        /\ mainPc' = "returned" => pendCreate' = {} /\ pendDelete' = {}
      ]_vars

\* A creation and a deletion are buffered while a system holds its borrows,
\* in a world where an earlier wait has applied a deletion.
C13_Witness ==
    /\ kind = "dyn"
    /\ pendCreate # {}
    /\ pendDelete # {}
    /\ pendDelete \subseteq alive
    /\ Readers("CompInt") # {}
    /\ \E i \in Ids : gens[i] > 1

\* The entities that have been deleted: those of a generation the allocator
\* has left behind.
Deleted == { e \in Entities : get_gen(e) < gens[get_id(e)] }

\* C14: deletion propagation: wait applies a buffered deletion of e by
\* calling del(e) on every registered storage, the dense and the sparse
\* one, whether or not it holds an entry for e; once wait has returned,
\* get(e) is empty in every registered storage.
C14_DeletionPropagation ==
    /\ \A e \in Deleted :
           /\ VecStorage_get(vec, e) = None
           /\ HashMapStorage_get(map, e) = None
    /\ mainPc = "returned" =>
           \A i \in Ids \ alive :
               /\ Vec_get(vec, i) # None => vec[i + 1] = None
               /\ \A g \in Gens : Entity_new(i, g) \notin DOMAIN map

\* wait has returned from deleting an entity that had both components and
\* one that had none, and the id of neither has been built on since.
C14_Witness ==
    /\ mainPc = "returned"
    /\ \E e \in Deleted : get_id(e) \notin alive /\ Vec_get(vec, get_id(e)) # None
    /\ \E e \in Deleted : get_id(e) \notin alive /\ Vec_get(vec, get_id(e)) = None

\* The step is the end of a task by a panic.
Panics == lastEnded' # lastEnded /\ lastEnded' # None /\ lastEnded'[1].st = "failed"

\* C15: task failure is observable at the barrier: when a task scheduled
\* since the previous wait has panicked, before or after it fetched, the
\* next wait panics on the calling thread instead of returning; and the
\* storages stay as the failed task left them: what it wrote before it
\* panicked is kept, and neither the panic nor wait undoes anything.
C15_TaskFailureObservable ==
    [][ /\ Panics => failed'
        /\ failed => failed'
        /\ (mainPc = "waiting" /\ mainPc' # "waiting") =>
               IF failed
               THEN /\ mainPc' = "panicked"
                    /\ vec' = vec
                    /\ map' = map
                    /\ alive' = alive
                    /\ gens' = gens
               ELSE mainPc' = "returned"
        /\ Panics =>
               /\ vec' = vec
               /\ alive' = alive
               /\ DOMAIN map' = DOMAIN map
               /\ \A e \in DOMAIN map :
                      IF /\ lastEnded'[1].kind = "run1w1r"
                         /\ \E n \in DOMAIN lastEnded'[1].seen :
                                lastEnded'[1].seen[n] = get_id(e)
                      THEN map'[e] = (VecStorage_get(vec, e)[1].val = CompInt7)
                      ELSE map'[e] = map[e]
      ]_vars

\* wait has panicked after a run1w1r system panicked half-way: it had
\* written the CompBool of one entity and not yet that of another.
C15_Witness ==
    /\ mainPc = "panicked"
    /\ lastEnded # None
    /\ lastEnded[1].kind = "run1w1r"
    /\ lastEnded[1].st = "failed"
    /\ lastEnded[1].seen # << >>
    /\ lastEnded[1].seen # Join("run1w1r")
    /\ map[EntityAt(lastEnded[1].seen[1])] = TRUE
    /\ \E i \in alive : Has("CompBool", EntityAt(i)) /\ map[EntityAt(i)] = FALSE

\* The ids a sequence of ids runs over.
Range(ids) == { ids[n] : n \in DOMAIN ids }

\* The storages a closure of kind k names.
Required(k) == Reads(k) \cup Writes(k)

\* get(entity) is non-empty in the storage of component c, read off the
\* stored data: the dense slot of the id holds the entity's generation, the
\* sparse storage has the entity as a key.
Stored(c, e) ==
    IF c = "CompInt"
    THEN /\ get_id(e) < Len(vec)
         /\ vec[get_id(e) + 1] # None
         /\ vec[get_id(e) + 1][1].gen = get_gen(e)
    ELSE e \in DOMAIN map

WritesFor(k1, k2) == Writes(k1) \cap Reads(k2) # {}

====
